---- MODULE Spec2Model ----
(***************************************************************************)
(* Airplane (src/src/ts/vehicles/Airplane.ts, the class at lines 372-713): *)
(* the per-tick update of engine power and control-surface spring targets, *)
(* and the aerodynamic force model run as the rigid body's preStep hook.   *)
(*                                                                         *)
(* Units.  The program computes in floating point; the model computes in   *)
(* fixed point on grids on which every constant of the program is exact:   *)
(*   engine power, spring targets : hundredths          (1.0  = 100)       *)
(*   timeStep                     : whole seconds                          *)
(*   angles                       : hundredths of a radian (0.35 = 35)     *)
(*   velocity components          : quarters of a unit/s (0.5 = 2)         *)
(*   lift coefficient             : thousandths                            *)
(*   forces                       : 1/1600 of a force unit                 *)
(*   application points           : hundredths                             *)
(***************************************************************************)
EXTENDS Integers, Sequences, FiniteSets, TLC

VARIABLES
    actions,              \* this.actions[k].isPressed, k \in Keys
    controllingCharacter, \* TRUE iff this.controllingCharacter !== undefined
    numWheelsOnGround,    \* this.rayCastVehicle.numWheelsOnGround
    enginePower,          \* this.enginePower
    target,               \* the four SpringSimulator.target fields
    velocity,             \* body-local velocity of the rigid body
    aero,                 \* locals of the physicsPreStep of the world step in progress, or NoAero
    applied,              \* its applyLocalForce calls, in program order
    trace,                \* outward calls of the last update(), until the environment changes
    decayTime             \* seconds of uncontrolled ticks since power was last 1 (-1: not tracked)

vars == <<actions, controllingCharacter, numWheelsOnGround, enginePower,
          target, velocity, aero, applied, trace, decayTime>>

----------------------------------------------------------------------------
(* Bounds of the exploration *)

\* largest timeStep of one update tick, in seconds
MaxTimeStep == 3
\* largest ground-contact wheel count
MaxWheels == 2
\* velocity components range over -MaxV..MaxV quarters
MaxV == 3

----------------------------------------------------------------------------
(* Program constants *)

\* ceiling of engine power: 1
PowerOne == 100
\* ramp-up rate 0.4 per second
RampUp == 40
\* ramp-down rate 0.12 per second
RampDown == 12
\* rotor spin multiplier 60
RotorSpin == 60
\* steering deflection 0.8
SteeringAmount == 80
\* partsRotationAmount = 0.7
partsRotationAmount == 70

Keys == {"throttle", "brake", "pitchUp", "pitchDown",
         "yawLeft", "yawRight", "rollLeft", "rollRight"}

Springs == <<"steering", "aileron", "elevator", "rudder">>

Min(a, b) == IF a < b THEN a ELSE b
Max(a, b) == IF a > b THEN a ELSE b

----------------------------------------------------------------------------
(* update(timeStep): engine power *)

EnginePowerNoClamp(power, controlled, timeStep) ==
    IF controlled THEN power + timeStep * RampUp
                  ELSE power - timeStep * RampDown

EnginePowerOneRate(power, controlled, timeStep) ==
    IF controlled
    THEN LET p == IF power < PowerOne THEN power + timeStep * RampUp ELSE power
         IN  IF p > PowerOne THEN PowerOne ELSE p
    ELSE LET p == IF power > 0 THEN power - timeStep * RampUp ELSE power
         IN  IF p < 0 THEN 0 ELSE p

EnginePowerStep(power, controlled, timeStep) ==
    IF controlled
    THEN LET p == IF power < PowerOne THEN power + timeStep * RampUp ELSE power
         IN  IF p > PowerOne THEN PowerOne ELSE p
    ELSE LET p == IF power > 0 THEN power - timeStep * RampDown ELSE power
         IN  IF p < 0 THEN 0 ELSE p

----------------------------------------------------------------------------
(* update(timeStep): spring targets *)

SteeringTargetIgnoringWheels(keys, wheels) ==
    IF (keys["yawLeft"] \/ keys["rollLeft"])
        /\ ~keys["yawRight"] /\ ~keys["rollRight"]
    THEN SteeringAmount
    ELSE IF (keys["yawRight"] \/ keys["rollRight"])
             /\ ~keys["yawLeft"] /\ ~keys["rollLeft"]
         THEN -SteeringAmount
         ELSE 0

SteeringTarget(keys, wheels) ==
    IF wheels > 0
    THEN IF (keys["yawLeft"] \/ keys["rollLeft"])
             /\ ~keys["yawRight"] /\ ~keys["rollRight"]
         THEN SteeringAmount
         ELSE IF (keys["yawRight"] \/ keys["rollRight"])
                  /\ ~keys["yawLeft"] /\ ~keys["rollLeft"]
              THEN -SteeringAmount
              ELSE 0
    ELSE 0

AileronTarget(keys) ==
    IF keys["rollLeft"] /\ ~keys["rollRight"] THEN partsRotationAmount
    ELSE IF ~keys["rollLeft"] /\ keys["rollRight"] THEN -partsRotationAmount
    ELSE 0

ElevatorTargetNoTieBreak(keys) ==
    IF keys["pitchUp"] THEN partsRotationAmount
    ELSE IF keys["pitchDown"] THEN -partsRotationAmount
    ELSE 0

ElevatorTarget(keys) ==
    IF keys["pitchUp"] /\ ~keys["pitchDown"] THEN partsRotationAmount
    ELSE IF ~keys["pitchUp"] /\ keys["pitchDown"] THEN -partsRotationAmount
    ELSE 0

RudderTarget(keys) ==
    IF keys["yawLeft"] /\ ~keys["yawRight"] THEN partsRotationAmount
    ELSE IF ~keys["yawLeft"] /\ keys["yawRight"] THEN -partsRotationAmount
    ELSE 0

Targets(keys, wheels) ==
    [s \in {"steering", "aileron", "elevator", "rudder"} |->
        CASE s = "steering" -> SteeringTarget(keys, wheels)
          [] s = "aileron"  -> AileronTarget(keys)
          [] s = "elevator" -> ElevatorTarget(keys)
          [] s = "rudder"   -> RudderTarget(keys)]

Call(op, obj, arg) == [op |-> op, obj |-> obj, arg |-> arg]

\* The statements of update() that reach another object, in program order.
\* The writes of SpringSimulator.position to the scene nodes are left out:
\* position is computed inside SpringSimulator.simulate.
UpdateCallsSimulateFirst(power, tg, timeStep) ==
    << Call("update", "airplane", timeStep),
       Call("rotateX", "rotor", power * timeStep * RotorSpin),
       Call("simulate", "steering", timeStep),
       Call("target", "steering", tg["steering"]),
       Call("target", "aileron", tg["aileron"]),
       Call("target", "elevator", tg["elevator"]),
       Call("target", "rudder", tg["rudder"]),
       Call("simulate", "aileron", timeStep),
       Call("simulate", "elevator", timeStep),
       Call("simulate", "rudder", timeStep) >>

UpdateCalls(power, tg, timeStep) ==
    << Call("update", "airplane", timeStep),
       Call("rotateX", "rotor", power * timeStep * RotorSpin),
       Call("target", "steering", tg["steering"]),
       Call("simulate", "steering", timeStep),
       Call("target", "aileron", tg["aileron"]),
       Call("target", "elevator", tg["elevator"]),
       Call("target", "rudder", tg["rudder"]),
       Call("simulate", "aileron", timeStep),
       Call("simulate", "elevator", timeStep),
       Call("simulate", "rudder", timeStep) >>

----------------------------------------------------------------------------
(* physicsPreStep(body, plane): fixed-point arithmetic *)

\* alphaMax = 0.35
alphaMax == 35
\* deep-stall bound 0.7 of the lift curve
DeepStall == 70
\* Math.PI * 0.5, and asin(1)
HalfPi == 157
\* stall-speed threshold 0.5 of the angle computation
StallSpeed == 2
\* lift slope 4.3 and offset 3.1, in thousandths
LiftSlope == 4300
LiftOffset == 3100
\* base drag coefficient 0.35, in ten-thousandths
DragBase == 3500
\* max thrust 400
MaxThrust == 400
\* roll force per unit of speed
RollGain == 3
\* pitch and yaw force per unit of squared speed, in hundredths: 0.04 and 0.02
ControlGain == 4
ControlGainStalled == 2

\* Math.asin of an argument outside [-1,1], and everything computed from it
NaN == 0 - 1000000000

Abs(a) == IF a < 0 THEN -a ELSE a
Sgn(a) == IF a < 0 THEN -1 ELSE IF a > 0 THEN 1 ELSE 0

RECURSIVE ISqrtIn(_, _, _)
ISqrtIn(m, lo, hi) ==
    IF lo >= hi THEN lo
    ELSE LET mid == (lo + hi + 1) \div 2
         IN  IF mid * mid <= m THEN ISqrtIn(m, mid, hi) ELSE ISqrtIn(m, lo, mid - 1)

\* floor of the square root
ISqrt(m) == ISqrtIn(m, 0, 40000)

\* sin(a/100) * 10000 for 0 <= a <= HalfPi, by the Taylor series in Horner form
SinSeries(a) ==
    LET x2 == a * a
        t4 == 10000 - (x2 * 10000) \div 720000
        t3 == 10000 - (x2 * t4) \div 420000
        t2 == 10000 - (x2 * t3) \div 200000
        t1 == 10000 - (x2 * t2) \div 60000
    IN  (a * t1) \div 100

SinTable == [a \in 0..HalfPi |-> SinSeries(a)]

Sin(a) == IF a = NaN THEN NaN ELSE Sgn(a) * SinTable[Min(Abs(a), HalfPi)]
Cos(a) == IF a = NaN THEN NaN ELSE SinTable[HalfPi - Min(Abs(a), HalfPi)]

RECURSIVE AsinIn(_, _, _, _)
AsinIn(p, q2, lo, hi) ==
    IF lo >= hi THEN lo
    ELSE LET mid == (lo + hi + 1) \div 2
             s   == SinTable[mid] \div 10
         IN  IF s * s * q2 <= p * p * 1000000
             THEN AsinIn(p, q2, mid, hi) ELSE AsinIn(p, q2, lo, mid - 1)

\* Math.asin(p / sqrt(q2)) for q2 > 0, to within one step of the angle grid;
\* NaN when the argument is outside [-1,1]
Asin(p, q2) ==
    IF p * p > q2 THEN NaN
    ELSE IF p * p = q2 THEN Sgn(p) * HalfPi
    ELSE Sgn(p) * AsinIn(Abs(p), q2, 0, HalfPi)

SquareSpeed(v) == v[1] * v[1] + v[2] * v[2] + v[3] * v[3]

\* velocity.length() > 0.5
AboveStallSpeed(v) == SquareSpeed(v) > StallSpeed * StallSpeed

\* truncating division by a positive divisor
Quot(a, b) == Sgn(a) * (Abs(a) \div b)

----------------------------------------------------------------------------
(* physicsPreStep(body, plane): angles and coefficients *)

\* sea-level air density 1.225, in thousandths
airDensity == 1225
\* wingS = 0.7, in tenths
wingS == 7
\* cL0 = 0.5, in tenths
cL0 == 5

\* beta: sideslip
Beta(v) == IF AboveStallSpeed(v) THEN Asin(v[1], SquareSpeed(v)) ELSE 0

\* (velocity.length() * Math.cos(beta))^2, which is |v|^2 (1 - sin(beta)^2)
DivisorSq(v) == SquareSpeed(v) - v[1] * v[1]

\* alpha: angle of attack.  The code neither tests the divisor nor clamps the
\* argument of Math.asin.  With no forward component the exact argument is
\* 0/0 (pure sideways motion) or +-1, and the floating-point quotient of a
\* velocity on or next to the grid point lands on either side of the domain
\* of asin: both outcomes are kept.
AlphaOutcomes(v) ==
    IF ~AboveStallSpeed(v) THEN {0}
    ELSE IF DivisorSq(v) = 0 THEN {0, NaN}
    ELSE IF v[3] = 0 THEN {-Asin(v[2], DivisorSq(v)), NaN}
    ELSE {-Asin(v[2], DivisorSq(v))}

\* cL, in thousandths; every comparison with NaN is false
LiftCoefClamped(alpha) ==
    IF alpha = NaN THEN 0
    ELSE IF Abs(alpha) < alphaMax THEN (LiftSlope * alpha) \div 100
    ELSE IF alpha <= -alphaMax
         THEN (-LiftSlope * Max(alpha, -DeepStall)) \div 100 - LiftOffset
         ELSE (-LiftSlope * Min(alpha, DeepStall)) \div 100 + LiftOffset

LiftCoef(alpha) ==
    IF alpha = NaN THEN 0
    ELSE IF Abs(alpha) < alphaMax THEN (LiftSlope * alpha) \div 100
    ELSE IF alpha <= -alphaMax /\ alpha > -DeepStall
         THEN (-LiftSlope * alpha) \div 100 - LiftOffset
    ELSE IF alpha >= alphaMax /\ alpha < DeepStall
         THEN (-LiftSlope * alpha) \div 100 + LiftOffset
    ELSE 0

\* dragCoef, in ten-thousandths
DragCoef(alpha) ==
    IF alpha = NaN THEN NaN
    ELSE IF Abs(alpha) < HalfPi THEN DragBase + alpha * alpha
    ELSE DragBase + (Abs(alpha) - HalfPi) * (Abs(alpha) - HalfPi)

\* dynamicPressure at height 0 (Math.pow(Math.E, 0) = 1)
DynamicPressure(v) == (SquareSpeed(v) * airDensity) \div 20

\* pitchF and yawF
ControlForce(angle, v) ==
    IF angle # NaN /\ angle < alphaMax
    THEN SquareSpeed(v) * ControlGain
    ELSE SquareSpeed(v) * ControlGainStalled

\* trust
ThrustAlways(keys, power) == MaxThrust * power * 16

Thrust(keys, power) ==
    IF keys["throttle"] /\ ~keys["brake"] THEN MaxThrust * power * 16 ELSE 0

----------------------------------------------------------------------------
(* physicsPreStep(body, plane): force contributions *)

Force(of, force, point) == [of |-> of, force |-> force, point |-> point]

mid == <<0, 0, 0>>
tail == <<0, 0, -100>>
leftWingtip == <<100, 0, 0>>
rightWingtip == <<-100, 0, 0>>
aeroCenterPos == <<0, 0, -10>>
pressCenterPos(wheels) == <<0, 0, IF wheels > 0 THEN 20 ELSE 5>>

\* currentSpeed = velocity.length(), in 1/400
CurrentSpeed(v) == ISqrt(SquareSpeed(v) * 10000)

\* flowDirection.scale(drag): the velocity, normalized and negated, times drag
DragVec(v, drag) ==
    [i \in 1..3 |->
        IF drag = NaN THEN NaN
        ELSE IF SquareSpeed(v) = 0 THEN 0
        ELSE -Quot(v[i] * drag * 100, CurrentSpeed(v))]

\* (0, lift * Math.cos(alpha), lift * Math.sin(alpha))
LiftVec(lift, alpha) ==
    IF alpha = NaN THEN <<0, NaN, NaN>>
    ELSE <<0, Quot(lift * Cos(alpha), 10000), Quot(lift * Sin(alpha), 10000)>>

PitchForces(keys, pitchF) ==
    (IF keys["pitchUp"] THEN <<Force("pitch", <<0, -pitchF, 0>>, tail)>> ELSE <<>>)
    \o (IF keys["pitchDown"] THEN <<Force("pitch", <<0, pitchF, 0>>, tail)>> ELSE <<>>)

YawForces(keys, yawF) ==
    (IF keys["yawLeft"] THEN <<Force("yaw", <<-yawF, 0, 0>>, tail)>> ELSE <<>>)
    \o (IF keys["yawRight"] THEN <<Force("yaw", <<yawF, 0, 0>>, tail)>> ELSE <<>>)

RollForcesSameSign(keys, v) ==
    LET f == RollGain * CurrentSpeed(v) * 4
    IN  (IF keys["rollLeft"]
         THEN <<Force("roll", <<0, -f, 0>>, leftWingtip),
                Force("roll", <<0, f, 0>>, rightWingtip)>> ELSE <<>>)
        \o (IF keys["rollRight"]
            THEN <<Force("roll", <<0, -f, 0>>, leftWingtip),
                   Force("roll", <<0, f, 0>>, rightWingtip)>> ELSE <<>>)

RollForces(keys, v) ==
    LET f == RollGain * CurrentSpeed(v) * 4
    IN  (IF keys["rollLeft"]
         THEN <<Force("roll", <<0, -f, 0>>, leftWingtip),
                Force("roll", <<0, f, 0>>, rightWingtip)>> ELSE <<>>)
        \o (IF keys["rollRight"]
            THEN <<Force("roll", <<0, f, 0>>, leftWingtip),
                   Force("roll", <<0, -f, 0>>, rightWingtip)>> ELSE <<>>)

\* the locals of one run of physicsPreStep with angle of attack alpha
AeroLocals(keys, v, power, alpha) ==
    [beta     |-> Beta(v),
     alpha    |-> alpha,
     liftCoef |-> LiftCoef(alpha),
     dragCoef |-> DragCoef(alpha),
     pitchF   |-> ControlForce(alpha, v),
     yawF     |-> ControlForce(Beta(v), v),
     trust    |-> Thrust(keys, power)]

\* the applyLocalForce calls of one run of physicsPreStep, in program order
AppliedForces(keys, v, wheels, a) ==
    LET q     == DynamicPressure(v)
        drag  == IF a.dragCoef = NaN THEN NaN
                 ELSE Quot(Quot(a.dragCoef * q, 10000) * wingS, 10)
        lift0 == Quot(cL0 * q * wingS, 100)
        lift  == Quot(Quot(a.liftCoef * q, 1000) * wingS, 10)
        side  == Quot(a.beta * q, 100)
    IN  PitchForces(keys, a.pitchF)
        \o YawForces(keys, a.yawF)
        \o RollForces(keys, v)
        \o << Force("trust", <<0, 0, a.trust>>, mid),
              Force("drag", DragVec(v, drag), aeroCenterPos),
              Force("lift0", LiftVec(lift0, a.alpha), pressCenterPos(wheels)),
              Force("lift", LiftVec(lift, a.alpha), aeroCenterPos),
              Force("side", <<-side, 0, 0>>, aeroCenterPos) >>

----------------------------------------------------------------------------
(* State machine *)

NoAero == [beta |-> 0, alpha |-> 0, liftCoef |-> 0, dragCoef |-> 0,
           pitchF |-> 0, yawF |-> 0, trust |-> 0]

\* no world step is in progress
Quiescent == applied = <<>>

\* the velocities one step of the grid away from v, at most, in each component
Near(c) == Max(-MaxV, c - 1)..Min(MaxV, c + 1)
Reachable(v) == Near(v[1]) \X Near(v[2]) \X Near(v[3])

\* first second at which power decayed from 1 is certainly 0
DecayHorizon == PowerOne \div RampDown + 1

Init ==
    /\ actions = [k \in Keys |-> FALSE]
    /\ controllingCharacter = FALSE
    /\ numWheelsOnGround = 0
    /\ enginePower = 0
    /\ target = [s \in {"steering", "aileron", "elevator", "rudder"} |-> 0]
    /\ velocity = <<0, 0, 0>>
    /\ aero = NoAero
    /\ applied = <<>>
    /\ trace = <<>>
    /\ decayTime = -1

\* update(timeStep)
Update(timeStep) ==
    /\ Quiescent
    /\ enginePower' = EnginePowerStep(enginePower, controllingCharacter, timeStep)
    /\ target' = Targets(actions, numWheelsOnGround)
    /\ trace' = UpdateCalls(enginePower', target', timeStep)
    /\ decayTime' = IF controllingCharacter
                    THEN (IF enginePower' = PowerOne THEN 0 ELSE -1)
                    ELSE IF decayTime >= 0
                         THEN Min(decayTime + timeStep, DecayHorizon)
                         ELSE -1
    /\ UNCHANGED <<actions, controllingCharacter, numWheelsOnGround, velocity,
                   aero, applied>>

\* physicsPreStep(body, plane)
PhysicsPreStep ==
    /\ Quiescent
    /\ \E alpha \in AlphaOutcomes(velocity) :
          /\ aero' = AeroLocals(actions, velocity, enginePower, alpha)
          /\ applied' = AppliedForces(actions, velocity, numWheelsOnGround, aero')
    /\ UNCHANGED <<actions, controllingCharacter, numWheelsOnGround, enginePower,
                   target, velocity, trace, decayTime>>

\* the rigid-body solver integrates the applied forces: they are consumed and
\* each component of the velocity has moved by at most one step of the grid
WorldStep(v) ==
    /\ ~Quiescent
    /\ velocity' = v
    /\ aero' = NoAero
    /\ applied' = <<>>
    /\ UNCHANGED <<actions, controllingCharacter, numWheelsOnGround, enginePower,
                   target, trace, decayTime>>

\* the input subsystem presses or releases a key
KeyChange(k) ==
    /\ Quiescent
    /\ actions' = [actions EXCEPT ![k] = ~@]
    /\ trace' = <<>>
    /\ UNCHANGED <<controllingCharacter, numWheelsOnGround, enginePower, target,
                   velocity, aero, applied, decayTime>>

\* a character takes the controls
CharacterEnters ==
    /\ Quiescent
    /\ ~controllingCharacter
    /\ controllingCharacter' = TRUE
    /\ trace' = <<>>
    /\ UNCHANGED <<actions, numWheelsOnGround, enginePower, target, velocity,
                   aero, applied, decayTime>>

\* onInputChange: exitVehicle pressed while controlled, forceCharacterOut()
CharacterExits ==
    /\ Quiescent
    /\ controllingCharacter
    /\ controllingCharacter' = FALSE
    /\ trace' = <<>>
    /\ UNCHANGED <<actions, numWheelsOnGround, enginePower, target, velocity,
                   aero, applied, decayTime>>

\* wheels gain or lose ground contact
WheelContact(n) ==
    /\ Quiescent
    /\ n # numWheelsOnGround
    /\ numWheelsOnGround' = n
    /\ trace' = <<>>
    /\ UNCHANGED <<actions, controllingCharacter, enginePower, target, velocity,
                   aero, applied, decayTime>>

TimeSteps == 0..MaxTimeStep
Wheels == 0..MaxWheels

\* Engine: ticks under a character entering and leaving
EngineKeys == {"throttle", "brake", "yawLeft"}

Next ==
    \/ \E t \in TimeSteps : Update(t)
    \/ CharacterEnters
    \/ CharacterExits
    \/ \E k \in EngineKeys : KeyChange(k)
    \/ \E n \in Wheels : WheelContact(n)

Spec == Init /\ [][Next]_vars

\* Control surfaces: ticks under every combination of the keys
NextSurfaces ==
    \/ \E t \in TimeSteps : Update(t)
    \/ \E k \in Keys : KeyChange(k)
    \/ \E n \in Wheels : WheelContact(n)

SpecSurfaces == Init /\ [][NextSurfaces]_vars

\* Aerodynamics: world steps at every velocity of the grid
AeroKeys == {"pitchUp", "pitchDown", "yawLeft", "yawRight"}

NextAero ==
    \/ PhysicsPreStep
    \/ \E v \in Reachable(velocity) : WorldStep(v)
    \/ \E k \in AeroKeys : KeyChange(k)
    \/ \E n \in Wheels : WheelContact(n)

SpecAero == Init /\ [][NextAero]_vars

\* Thrust: world steps while a character runs the engine up
ThrustKeys == {"throttle", "brake"}

NextThrust ==
    \/ PhysicsPreStep
    \/ \E v \in Reachable(velocity) : WorldStep(v)
    \/ \E t \in TimeSteps : Update(t)
    \/ CharacterEnters
    \/ \E k \in ThrustKeys : KeyChange(k)
    \/ \E n \in Wheels : WheelContact(n)

SpecThrust == Init /\ [][NextThrust]_vars

\* Roll: ticks and world steps under the roll keys
RollKeys == {"rollLeft", "rollRight"}

NextRoll ==
    \/ PhysicsPreStep
    \/ \E v \in Reachable(velocity) : WorldStep(v)
    \/ \E t \in TimeSteps : Update(t)
    \/ \E k \in RollKeys : KeyChange(k)
    \/ \E n \in Wheels : WheelContact(n)

SpecRoll == Init /\ [][NextRoll]_vars

----------------------------------------------------------------------------
(* Claims: engine power *)

\* update() ran and nothing in the environment has changed since
Ticked == trace # <<>>

\* the timeStep of that tick
TickTimeStep(tr) == tr[1].arg

\* C1: engine power stays within [0,1] in every reachable state, whatever the
\* sizes of the time steps and however controlled and uncontrolled ticks
\* interleave.
C1_EnginePowerInRange == 0 <= enginePower /\ enginePower <= PowerOne

\* a controlled tick of the largest time step ended at the ceiling
C1_Witness ==
    /\ Ticked /\ controllingCharacter
    /\ TickTimeStep(trace) = MaxTimeStep
    /\ enginePower = PowerOne

\* C2: a tick changes engine power by exactly one clamped linear step,
\* min(1, old + 0.4 timeStep) when controlled and max(0, old - 0.12 timeStep)
\* otherwise, whatever keys are pressed and however many wheels touch the
\* ground.
C2_ClampedLinearStep ==
    [][ (trace' # <<>> /\ Quiescent /\ Quiescent')
        => enginePower' =
             IF controllingCharacter
             THEN Min(PowerOne, enginePower + RampUp * TickTimeStep(trace'))
             ELSE Max(0, enginePower - RampDown * TickTimeStep(trace')) ]_vars

\* an uncontrolled tick, throttle held and airborne, left the power mid-range
C2_Witness ==
    /\ Ticked /\ ~controllingCharacter
    /\ actions["throttle"] /\ numWheelsOnGround = 0
    /\ TickTimeStep(trace) > 0
    /\ 0 < enginePower /\ enginePower < PowerOne

\* C3: from power 1, over uncontrolled ticks of any sizes, power is
\* 1 - 0.12 t after t seconds while that is positive and 0 from then on
\* (so it is non-increasing, never negative, 0 once t >= 1/0.12, and stays 0).
C3_LinearDecayToZero ==
    decayTime >= 0 => enginePower = Max(0, PowerOne - RampDown * decayTime)

\* the decay from 1 has run past 1/0.12 seconds and power is 0
C3_Witness ==
    /\ Ticked /\ ~controllingCharacter
    /\ decayTime * RampDown >= PowerOne
    /\ enginePower = 0

----------------------------------------------------------------------------
(* Claims: control surfaces *)

\* the tie-break rule of an opposing pair
TieBreak(first, second, magnitude) ==
    IF first /\ ~second THEN magnitude
    ELSE IF second /\ ~first THEN -magnitude
    ELSE 0

\* C4: after every tick each spring target follows the same tie-break rule of
\* its own opposing pair: aileron rollLeft/rollRight, elevator
\* pitchUp/pitchDown, rudder yawLeft/yawRight and, with a wheel on the ground,
\* steering left/right, where left is yawLeft or rollLeft and right is
\* yawRight or rollRight; the other inputs have no influence.
C4_TieBreakRule ==
    Ticked =>
      /\ target["aileron"] =
           TieBreak(actions["rollLeft"], actions["rollRight"], partsRotationAmount)
      /\ target["elevator"] =
           TieBreak(actions["pitchUp"], actions["pitchDown"], partsRotationAmount)
      /\ target["rudder"] =
           TieBreak(actions["yawLeft"], actions["yawRight"], partsRotationAmount)
      /\ numWheelsOnGround > 0 =>
           target["steering"] =
             TieBreak(actions["yawLeft"] \/ actions["rollLeft"],
                      actions["yawRight"] \/ actions["rollRight"], SteeringAmount)

\* a tick on the ground with the elevator pair tied, one roll key, the
\* opposite yaw key and the throttle pressed
C4_Witness ==
    /\ Ticked /\ numWheelsOnGround > 0
    /\ actions["pitchUp"] /\ actions["pitchDown"]
    /\ actions["rollLeft"] /\ ~actions["rollRight"]
    /\ actions["yawRight"] /\ ~actions["yawLeft"]
    /\ actions["throttle"]

\* C5: after a tick with no wheel on the ground the steering target is 0
\* whatever is pressed, while the rudder target ignores wheel contact: yawLeft
\* alone gives rudder +0.7.
C5_AirborneSteeringNeutral ==
    Ticked =>
      /\ numWheelsOnGround = 0 => target["steering"] = 0
      /\ (actions["yawLeft"] /\ ~actions["yawRight"])
            => target["rudder"] = partsRotationAmount

\* an airborne tick with yawLeft alone
C5_Witness ==
    /\ Ticked /\ numWheelsOnGround = 0
    /\ actions["yawLeft"] /\ ~actions["yawRight"]
    /\ target["steering"] = 0 /\ target["rudder"] = partsRotationAmount

\* positions in the trace of the calls op on spring s
CallsAt(op, s) == {i \in 1..Len(trace) : trace[i].op = op /\ trace[i].obj = s}

SimulateOrder ==
    LET sims == SelectSeq(trace, LAMBDA c : c.op = "simulate")
    IN  [i \in 1..Len(sims) |-> sims[i].obj]

\* each simulator is advanced exactly once, with the tick's timeStep, in the
\* order steering, aileron, elevator, rudder
C9_OncePerTickInOrder ==
    /\ SimulateOrder = Springs
    /\ \A i \in 1..Len(trace) :
          trace[i].op = "simulate" => trace[i].arg = TickTimeStep(trace)

\* C9 as stated: all four targets are written before any simulator is
\* advanced, and then each simulator is advanced once, in order.
C9_AllTargetsBeforeAnySimulate ==
    Ticked =>
      /\ \A i, j \in 1..Len(trace) :
            (trace[i].op = "target" /\ trace[j].op = "simulate") => i < j
      /\ C9_OncePerTickInOrder

\* C9 amended: each spring's target is written, once, before that spring's
\* simulator is advanced; the steering simulator is advanced before the
\* aileron, elevator and rudder targets are written; each simulator is
\* advanced once, in order.
C9_OwnTargetBeforeSimulate ==
    Ticked =>
      /\ \A k \in 1..Len(Springs) :
            /\ Cardinality(CallsAt("target", Springs[k])) = 1
            /\ \A i \in CallsAt("target", Springs[k]) :
                  /\ trace[i].arg = target[Springs[k]]
                  /\ \A j \in CallsAt("simulate", Springs[k]) : i < j
      /\ \A j \in CallsAt("simulate", "steering") :
            \A k \in 2..Len(Springs) :
               \A i \in CallsAt("target", Springs[k]) : j < i
      /\ C9_OncePerTickInOrder

\* a tick of a positive time step that moved three targets
C9_Witness ==
    /\ Ticked /\ TickTimeStep(trace) > 0
    /\ target["steering"] # 0 /\ target["aileron"] # 0 /\ target["rudder"] # 0

----------------------------------------------------------------------------
(* Claims: forces *)

\* physicsPreStep ran in the world step in progress
PreStepped == applied # <<>>

Plus(f, g) == <<f[1] + g[1], f[2] + g[2], f[3] + g[3]>>

\* r x f
Cross(r, f) == <<r[2] * f[3] - r[3] * f[2],
                 r[3] * f[1] - r[1] * f[3],
                 r[1] * f[2] - r[2] * f[1]>>

RECURSIVE NetForce(_)
NetForce(fs) ==
    IF fs = <<>> THEN <<0, 0, 0>> ELSE Plus(Head(fs).force, NetForce(Tail(fs)))

RECURSIVE NetTorque(_)
NetTorque(fs) ==
    IF fs = <<>> THEN <<0, 0, 0>>
    ELSE Plus(Cross(Head(fs).point, Head(fs).force), NetTorque(Tail(fs)))

RollApplied == SelectSeq(applied, LAMBDA f : f.of = "roll")
RollAppliedAt(point) == SelectSeq(RollApplied, LAMBDA f : f.point = point)

\* C6: with rollLeft and rollRight both pressed, a tick sets the aileron
\* target to 0, and in physicsPreStep the roll forces applied at each of the
\* wingtips (1,0,0) and (-1,0,0) sum to zero at every speed, so the net roll
\* force and the net roll torque are zero.
C6_OpposedRollCancels ==
    (actions["rollLeft"] /\ actions["rollRight"]) =>
      /\ Ticked => target["aileron"] = 0
      /\ PreStepped =>
           /\ Len(RollApplied) = 4
           /\ \A i \in 1..4 : RollApplied[i].point \in {leftWingtip, rightWingtip}
           /\ NetForce(RollAppliedAt(leftWingtip)) = <<0, 0, 0>>
           /\ NetForce(RollAppliedAt(rightWingtip)) = <<0, 0, 0>>
           /\ NetForce(RollApplied) = <<0, 0, 0>>
           /\ NetTorque(RollApplied) = <<0, 0, 0>>

\* both roll keys held through a tick and a pre-step of a moving body, in
\* which every single roll contribution is nonzero
C6_Witness ==
    /\ actions["rollLeft"] /\ actions["rollRight"]
    /\ Ticked /\ PreStepped
    /\ SquareSpeed(velocity) > 0
    /\ \A i \in 1..Len(RollApplied) : RollApplied[i].force[2] # 0

TrustApplied == SelectSeq(applied, LAMBDA f : f.of = "trust")

\* C7: in every pre-step the thrust force has a forward component only, of
\* magnitude max_thrust * enginePower when throttle is pressed and brake is
\* not, and 0 in the other three combinations, at every speed and wheel
\* contact.
C7_ThrustForwardOnly ==
    PreStepped =>
      /\ Len(TrustApplied) = 1
      /\ TrustApplied[1].point = mid
      /\ TrustApplied[1].force =
           <<0, 0, IF actions["throttle"] /\ ~actions["brake"]
                   THEN MaxThrust * enginePower * 16 ELSE 0>>

\* full power, throttle alone, airborne and moving
C7_Witness ==
    /\ PreStepped
    /\ actions["throttle"] /\ ~actions["brake"]
    /\ enginePower = PowerOne
    /\ numWheelsOnGround = 0
    /\ SquareSpeed(velocity) > 0
    /\ TrustApplied[1].force[3] > 0

\* C8: the angle computation never yields not-a-number: below speed 0.5
\* alpha and beta are 0, and above it both are numbers, pure sideways motion
\* included.
C8_AnglesNeverNaN ==
    PreStepped =>
      /\ aero.alpha # NaN /\ aero.beta # NaN
      /\ ~AboveStallSpeed(velocity) => (aero.alpha = 0 /\ aero.beta = 0)

\* C10: the lift coefficient is 4.3 alpha inside the stall angle, the
\* sign-flipped offset line up to the deep-stall bound, and beyond the bound
\* it is clamped to the value of that line at the bound.
C10_LiftClampedBeyondDeepStall ==
    (PreStepped /\ aero.alpha # NaN) => aero.liftCoef = LiftCoefClamped(aero.alpha)

\* the control force of an angle by its absolute value: the higher constant
\* while |angle| < alphaMax, the reduced one from alphaMax on
ControlForceByMagnitude(angle, v) ==
    IF angle # NaN /\ Abs(angle) < alphaMax
    THEN SquareSpeed(v) * ControlGain
    ELSE SquareSpeed(v) * ControlGainStalled

\* C11: the pitch and yaw force magnitudes depend on the absolute value of
\* the angle: 0.04 s^2 while |alpha| (resp. |beta|) is below alpha_max and
\* 0.02 s^2 from alpha_max on, so an angle beyond -alpha_max gets the reduced
\* constant like one beyond +alpha_max.
C11_ControlForceByMagnitude ==
    PreStepped =>
      /\ aero.pitchF = ControlForceByMagnitude(aero.alpha, velocity)
      /\ aero.yawF = ControlForceByMagnitude(aero.beta, velocity)

====
